---- MODULE Spec2Model ----
(***************************************************************************)
(* A model of package tracefs (src/tracefs.go): trace instances, tracer    *)
(* control, the uprobe rule encoding and the enable-path derivation, over  *)
(* a model of the trace filesystem the package drives.                     *)
(*                                                                         *)
(* A string is a sequence of symbols, so that formatting, joining,         *)
(* cleaning and trimming are computed and not assumed.  A symbol is one    *)
(* character, or a word of a literal of the source (a run of letters that  *)
(* no operation looks into, such as "instances").                          *)
(***************************************************************************)
EXTENDS Integers, Sequences, FiniteSets, TLC

VARIABLES
    dirs,    \* the directories of the mounted trace filesystem (set of paths)
    files,   \* the control nodes: path -> content
    insts,   \* the Instance descriptors the callers hold
    fds,     \* caller -> the open file of its operation in flight, or NoFd
    res,     \* the last completed operation: its receiver, inputs and results
    calc     \* the last evaluation of a pure function (Rule, UprobeEnablePath)

vars == <<dirs, files, insts, fds, res, calc>>

-----------------------------------------------------------------------------
(* Bounds of the model *)

\* the longest uprobe_events table (in lines) an append is tried on
MaxLines == 2

\* the number of operations the concurrent callers begin between them
MaxOps == 2

-----------------------------------------------------------------------------
(* Strings *)

Last(s) == s[Len(s)]

Front(s) == SubSeq(s, 1, Len(s) - 1)

RECURSIVE StringsJoin(_, _)
\* strings.Join(elems, sep)
StringsJoin(elems, sep) ==
    IF elems = <<>> THEN <<>>
    ELSE IF Len(elems) = 1 THEN Head(elems)
    ELSE Head(elems) \o sep \o StringsJoin(Tail(elems), sep)

RECURSIVE SplitAt(_, _, _)
\* the components of s from position k on, acc holding those before it
SplitAt(s, k, acc) ==
    IF k > Len(s) THEN acc
    ELSE IF s[k] = "/" THEN SplitAt(s, k + 1, Append(acc, <<>>))
    ELSE SplitAt(s, k + 1, [acc EXCEPT ![Len(acc)] = Append(@, s[k])])

\* the components of a path between its separators
Split(s) == SplitAt(s, 1, << <<>> >>)

Dot == <<".">>

DotDot == <<".", ".">>

RECURSIVE Resolve(_, _, _)
\* filepath.Clean's pass over the components: drops empty and "." ones, and
\* lets ".." cancel the component before it (or vanish at the root)
Resolve(comps, out, rooted) ==
    IF comps = <<>> THEN out
    ELSE LET c == Head(comps)
             next == IF c = <<>> \/ c = Dot THEN out
                     ELSE IF c = DotDot
                          THEN IF out # <<>> /\ Last(out) # DotDot THEN Front(out)
                               ELSE IF rooted THEN out
                               ELSE Append(out, c)
                     ELSE Append(out, c)
         IN  Resolve(Tail(comps), next, rooted)

\* filepath.Clean
Clean(s) ==
    LET rooted == s # <<>> /\ Head(s) = "/"
        out == Resolve(Split(s), <<>>, rooted)
    IN  IF rooted THEN <<"/">> \o StringsJoin(out, <<"/">>)
        ELSE IF out = <<>> THEN Dot
        ELSE StringsJoin(out, <<"/">>)

RECURSIVE DropEmpty(_)
\* the elements from the first non-empty one on
DropEmpty(elems) ==
    IF elems = <<>> THEN <<>>
    ELSE IF Head(elems) # <<>> THEN elems
    ELSE DropEmpty(Tail(elems))

\* filepath.Join
Join(elems) ==
    LET from == DropEmpty(elems)
    IN  IF from = <<>> THEN <<>> ELSE Clean(StringsJoin(from, <<"/">>))

\* filepath.Dir of a cleaned absolute path
Dir(p) ==
    LET comps == Resolve(Split(p), <<>>, TRUE)
    IN  IF comps = <<>> THEN <<"/">>
        ELSE <<"/">> \o StringsJoin(Front(comps), <<"/">>)

\* filepath.Base of a cleaned absolute path
Base(p) ==
    LET comps == Resolve(Split(p), <<>>, TRUE)
    IN  IF comps = <<>> THEN <<"/">> ELSE Last(comps)

Space == {" ", "\n", "\t"}

RECURSIVE TrimLeft(_)
TrimLeft(s) == IF s # <<>> /\ Head(s) \in Space THEN TrimLeft(Tail(s)) ELSE s

RECURSIVE TrimRight(_)
TrimRight(s) == IF s # <<>> /\ Last(s) \in Space THEN TrimRight(Front(s)) ELSE s

\* no trimming at all
TrimNothing(s) == s

\* bytes.TrimSpace
TrimSpace(s) == TrimRight(TrimLeft(s))

-----------------------------------------------------------------------------
(* The literals of the source *)

rootPath == <<"/", "sys", "/", "kernel", "/", "tracing">>

DefaultName == <<"*Default*">>

instancesLit == <<"instances">>

eventsLit == <<"events">>

uprobesLit == <<"uprobes">>

enableLit == <<"enable">>

uprobeEventsLit == <<"uprobe_events">>

curTracerPath == <<"current_tracer">>

tracingOnPath == <<"tracing_on">>

NopTracer == <<"n", "o", "p">>

FunctionTracer == <<"f", "u", "n", "c", "t", "i", "o", "n">>

-----------------------------------------------------------------------------
(* Instance descriptors *)

\* type Instance struct
Instance(isRoot, path, name) == [isRoot |-> isRoot, path |-> path, name |-> name]

\* func RootInstance(path string) Instance
RootInstance(path) == Instance(TRUE, path, DefaultName)

\* var DefaultInstance = RootInstance(rootPath)
DefaultInstance == RootInstance(rootPath)

-----------------------------------------------------------------------------
(* The uprobe rule protocol *)

HexDigit(d) ==
    <<"0", "1", "2", "3", "4", "5", "6", "7",
      "8", "9", "a", "b", "c", "d", "e", "f">>[d + 1]

RECURSIVE HexDigitsReversed(_)
\* the digits of n, the least significant first
HexDigitsReversed(n) ==
    IF n < 16 THEN <<HexDigit(n)>>
    ELSE <<HexDigit(n % 16)>> \o HexDigitsReversed(n \div 16)

RECURSIVE HexDigits(_)
\* the digits of %x
HexDigits(n) ==
    IF n < 16 THEN <<HexDigit(n)>>
    ELSE Append(HexDigits(n \div 16), HexDigit(n % 16))

RECURSIVE ZeroPad(_, _)
\* the 0 flag with a width: zeros on the left up to the width, no truncation
ZeroPad(s, width) == IF Len(s) >= width THEN s ELSE ZeroPad(<<"0">> \o s, width)

\* the verb %x, the width and the 0 flag left out
FmtX(n) == HexDigits(n)

\* the verb %016x
Fmt016x(n) == ZeroPad(HexDigits(n), 16)

\* func (f fetchRegister) String() string
FetchArgString(f) == f.register

RECURSIVE RuleArgs(_, _)
\* the loop over e.FetchArgs of Rule
RuleArgs(builder, args) ==
    IF args = <<>> THEN builder
    ELSE RuleArgs(builder \o <<" ">> \o FetchArgString(Head(args)), Tail(args))

\* func (e *UprobeEvent) Rule() string
Rule(e) ==
    LET typ == IF e.ReturnProbe THEN <<"r">> ELSE <<"p">>
        b1 == typ
        b2 == IF e.Group # <<>> /\ e.Event # <<>>
              THEN b1 \o <<":">> \o e.Group \o <<"/">> \o e.Event
              ELSE IF e.Event # <<>>
              THEN b1 \o <<":">> \o e.Event
              ELSE b1
        b3 == b2 \o <<" ">> \o e.Path \o <<":", "0", "x">> \o Fmt016x(e.Offset)
    IN  RuleArgs(b3, e.FetchArgs)

\* UprobeEnablePath with || for && in its first condition
UprobeEnablePathEither(i, e) ==
    IF e.Group # <<>> \/ e.Event # <<>>
    THEN Join(<<i.path, eventsLit, e.Group, e.Event, enableLit>>)
    ELSE Join(<<i.path, eventsLit, uprobesLit, enableLit>>)

\* func (i *Instance) UprobeEnablePath(e *UprobeEvent) string
UprobeEnablePath(i, e) ==
    IF e.Group # <<>> /\ e.Event # <<>>
    THEN Join(<<i.path, eventsLit, e.Group, e.Event, enableLit>>)
    ELSE IF e.Event # <<>>
    THEN Join(<<i.path, eventsLit, uprobesLit, e.Event, enableLit>>)
    ELSE Join(<<i.path, eventsLit, uprobesLit, enableLit>>)

-----------------------------------------------------------------------------
(* The trace filesystem, as the package's file calls see it.  Control nodes  *)
(* and instance directories belong to the kernel: a node exists exactly as   *)
(* long as its instance does, a node keeps the bytes last written to it, a   *)
(* directory can be made only under instances/, and removing an instance     *)
(* directory removes its nodes with it.                                      *)

\* the paths of an instance, as readFile and writeFile resolve them
NodePath(i, name) == Join(<<i.path, name>>)

\* q lies inside directory p
Under(p, q) == Len(q) > Len(p) /\ SubSeq(q, 1, Len(p)) = p /\ q[Len(p) + 1] = "/"

NewLine == <<"\n">>

\* what the kernel shows in the nodes of a fresh instance
DefaultNodes(p) ==
    (Join(<<p, curTracerPath>>) :> (NopTracer \o NewLine))
    @@ (Join(<<p, tracingOnPath>>) :> (<<"1">> \o NewLine))
    @@ (Join(<<p, uprobeEventsLit>>) :> <<>>)
    @@ (Join(<<p, eventsLit, uprobesLit, enableLit>>) :> (<<"0">> \o NewLine))

DefaultDirs(p) == {p, Join(<<p, eventsLit>>), Join(<<p, eventsLit, uprobesLit>>)}

\* os.Mkdir(p) succeeds
MkdirOk(p) ==
    /\ p \notin dirs
    /\ p \notin DOMAIN files
    /\ Dir(p) \in dirs
    /\ Base(Dir(p)) = instancesLit

\* os.Remove(p) succeeds: p is an instance directory nobody holds open
RemoveOk(p) ==
    /\ p \in dirs
    /\ Base(Dir(p)) = instancesLit
    /\ \A c \in DOMAIN fds : fds[c].open => ~Under(p, fds[c].path)

\* os.ReadDir(p) succeeds
ReadDirOk(p) == p \in dirs

\* the names os.ReadDir(p) lists
Entries(p) == {Base(d) : d \in {x \in dirs : Dir(x) = p}}

\* ioutil.ReadFile(p) and the opens of ioutil.WriteFile(p) and
\* os.OpenFile(p, O_APPEND|O_CREATE|O_WRONLY) succeed
OpenOk(p) == p \in DOMAIN files

\* a write that lays data over the start of content and keeps the rest, as a
\* plain file written at offset 0 without truncation would
WriteOver(content, data, append) ==
    IF append THEN content \o data
    ELSE data \o SubSeq(content, Len(data) + 1, Len(content))

\* a write that replaces the content even through an appending descriptor
WriteTruncating(content, data, append) == data

\* what one write of data leaves in a node that held content: a control
\* node takes the written bytes whole, an appending descriptor adds them
WriteNode(content, data, append) == IF append THEN content \o data ELSE data

\* the orders a listing of S can come in
Orders(S) ==
    {s \in [1..Cardinality(S) -> S] : \A x, y \in DOMAIN s : s[x] = s[y] => x = y}

Range(s) == {s[x] : x \in DOMAIN s}

\* the number of lines a table holds
NumLines(s) == Cardinality({k \in 1..Len(s) : s[k] = "\n"})

-----------------------------------------------------------------------------
(* Inputs *)

Callers == {"c1", "c2"}

\* names given to NewInstance: two entry names and the empty name
InstanceNames == {<<"a">>, <<"b">>, <<>>}

\* the one entry name of the runs about uprobes and about concurrent callers
OneName == {<<"a">>}

Tracers == {NopTracer, FunctionTracer}

\* what tracing_on of the root may hold when the program starts
OnContents == {<<"1">> \o NewLine, <<"0">> \o NewLine, <<"2">> \o NewLine, <<>>}

BinTrue == <<"/", "bin", "/", "true">>

LibC == <<"/", "lib", "/", "c">>

fetchRegister(r) == [register |-> r]

UprobeEvent(ret, group, event, path, offset, args) ==
    [ReturnProbe |-> ret, Group |-> group, Event |-> event, Path |-> path,
     Offset |-> offset, FetchArgs |-> args]

Groups == {<<>>, <<"g">>}

EventNames == {<<>>, <<"e">>, <<"f">>}

Paths == {BinTrue, LibC}

Offsets == {0, 256, 4096, 2147483647}

AX == fetchRegister(<<"%", "a", "x">>)

DI == fetchRegister(<<"%", "d", "i">>)

ArgLists == {<<>>, <<AX>>, <<AX, DI>>}

\* the events the pure functions are evaluated on
AllEvents ==
    {UprobeEvent(r, g, n, p, o, a) :
        r \in BOOLEAN, g \in Groups, n \in EventNames, p \in Paths,
        o \in Offsets, a \in ArgLists}

\* the events encoded in pairs
PairEvents == {e \in AllEvents : Len(e.FetchArgs) <= 1}

\* the events registered with the filesystem
AddEvents ==
    {UprobeEvent(TRUE, <<>>, <<>>, BinTrue, 256, <<>>),
     UprobeEvent(FALSE, <<"g">>, <<"e">>, LibC, 4096, <<AX>>)}

\* the events switched on and off: one for each shape of the naming
SwitchEvents ==
    AddEvents \cup {UprobeEvent(FALSE, <<>>, <<"e">>, LibC, 0, <<>>),
                    UprobeEvent(FALSE, <<"g">>, <<>>, LibC, 0, <<>>)}

-----------------------------------------------------------------------------
(* State *)

NoInst == Instance(FALSE, <<>>, <<>>)

NoEvent == UprobeEvent(FALSE, <<>>, <<>>, <<>>, 0, <<>>)

NoFd == [open |-> FALSE, op |-> "", inst |-> NoInst, path |-> <<>>,
         data |-> <<>>, append |-> FALSE, raced |-> FALSE, n |-> 0]

NoRes ==
    [op |-> "", inst |-> NoInst, name |-> <<>>, ev |-> NoEvent, t |-> <<>>,
     sys |-> "", path |-> <<>>, data |-> <<>>, wrote |-> FALSE, read |-> FALSE, ok |-> FALSE, on |-> FALSE,
     tracer |-> <<>>, out |-> <<>>, child |-> NoInst, before |-> <<>>,
     overlap |-> FALSE]

NoCalc == [op |-> "", inst |-> NoInst, e |-> NoEvent, e2 |-> NoEvent,
           s |-> <<>>, s2 |-> <<>>]

\* the mounted filesystem before any call: the root instance's directories
\* and nodes, tracing_on holding on
Mounted(on) ==
    /\ dirs = DefaultDirs(rootPath) \cup {Join(<<rootPath, instancesLit>>)}
    /\ files = [DefaultNodes(rootPath) EXCEPT ![Join(<<rootPath, tracingOnPath>>)] = on]

Init ==
    /\ \E on \in OnContents : Mounted(on)
    /\ insts = {DefaultInstance}
    /\ fds = [c \in Callers |-> NoFd]
    /\ res = NoRes
    /\ calc = NoCalc

-----------------------------------------------------------------------------
(* The operations of an Instance, each one whole *)

Called(op, i) == [NoRes EXCEPT !.op = op, !.inst = i]

\* a descriptor whose path leaves the entry name out
ChildEntryNoName(instanceDir, name) == Instance(FALSE, instanceDir, name)

\* the descriptor ChildInstances builds for a directory entry
ChildEntry(instanceDir, name) == Instance(FALSE, Join(<<instanceDir, name>>), name)

\* func (i Instance) ChildInstances() ([]Instance, error)
ChildInstances(i) ==
    LET instanceDir == Join(<<i.path, instancesLit>>)
    IN  /\ UNCHANGED <<dirs, files, fds, calc>>
        /\ IF ~i.isRoot
           THEN /\ res' = Called("ChildInstances", i)
                /\ UNCHANGED insts
           ELSE IF ~ReadDirOk(instanceDir)
           THEN /\ res' = [Called("ChildInstances", i) EXCEPT
                              !.sys = "ReadDir", !.path = instanceDir]
                /\ UNCHANGED insts
           ELSE \E entries \in Orders(Entries(instanceDir)) :
                  LET out == [k \in DOMAIN entries |->
                                 ChildEntry(instanceDir, entries[k])]
                  IN  /\ res' = [Called("ChildInstances", i) EXCEPT
                                    !.sys = "ReadDir", !.path = instanceDir,
                                    !.ok = TRUE, !.out = out]
                      /\ insts' = insts \cup Range(out)

\* the descriptor NewInstance returns
NewChild(childPath, name) == Instance(FALSE, childPath, name)

\* func (i *Instance) NewInstance(name string) (*Instance, error)
NewInstance(i, name) ==
    LET childPath == Join(<<i.path, instancesLit, name>>)
    IN  /\ UNCHANGED <<fds, calc>>
        /\ IF ~i.isRoot
           THEN /\ res' = [Called("NewInstance", i) EXCEPT !.name = name]
                /\ UNCHANGED <<dirs, files, insts>>
           ELSE IF ~MkdirOk(childPath)
           THEN /\ res' = [Called("NewInstance", i) EXCEPT
                              !.name = name, !.sys = "Mkdir", !.path = childPath]
                /\ UNCHANGED <<dirs, files, insts>>
           ELSE /\ dirs' = dirs \cup DefaultDirs(childPath)
                /\ files' = files @@ DefaultNodes(childPath)
                /\ insts' = insts \cup {NewChild(childPath, name)}
                /\ res' = [Called("NewInstance", i) EXCEPT
                              !.name = name, !.sys = "Mkdir", !.path = childPath,
                              !.ok = TRUE, !.child = NewChild(childPath, name)]

\* Destroy without its check of isRoot
DestroyUnchecked(i) ==
    /\ UNCHANGED <<insts, fds, calc>>
    /\ IF ~RemoveOk(i.path)
       THEN /\ res' = [Called("Destroy", i) EXCEPT !.sys = "Remove", !.path = i.path]
            /\ UNCHANGED <<dirs, files>>
       ELSE /\ dirs' = {d \in dirs : d # i.path /\ ~Under(i.path, d)}
            /\ files' = [q \in {x \in DOMAIN files : ~Under(i.path, x)} |-> files[q]]
            /\ res' = [Called("Destroy", i) EXCEPT
                          !.sys = "Remove", !.path = i.path, !.ok = TRUE]

\* Destroy removing the whole instances directory's content
DestroyAll(i) ==
    LET top == Dir(i.path)
    IN  /\ UNCHANGED <<insts, fds, calc>>
        /\ IF i.isRoot
           THEN /\ res' = Called("Destroy", i)
                /\ UNCHANGED <<dirs, files>>
           ELSE IF ~RemoveOk(i.path)
           THEN /\ res' = [Called("Destroy", i) EXCEPT
                              !.sys = "Remove", !.path = i.path]
                /\ UNCHANGED <<dirs, files>>
           ELSE /\ dirs' = {d \in dirs : ~Under(top, d)}
                /\ files' = [q \in {x \in DOMAIN files : ~Under(top, x)} |-> files[q]]
                /\ res' = [Called("Destroy", i) EXCEPT
                              !.sys = "Remove", !.path = i.path, !.ok = TRUE]

\* func (i *Instance) Destroy() error
Destroy(i) ==
    /\ UNCHANGED <<insts, fds, calc>>
    /\ IF i.isRoot
       THEN /\ res' = Called("Destroy", i)
            /\ UNCHANGED <<dirs, files>>
       ELSE IF ~RemoveOk(i.path)
       THEN /\ res' = [Called("Destroy", i) EXCEPT !.sys = "Remove", !.path = i.path]
            /\ UNCHANGED <<dirs, files>>
       ELSE /\ dirs' = {d \in dirs : d # i.path /\ ~Under(i.path, d)}
            /\ files' = [q \in {x \in DOMAIN files : ~Under(i.path, x)} |-> files[q]]
            /\ res' = [Called("Destroy", i) EXCEPT
                          !.sys = "Remove", !.path = i.path, !.ok = TRUE]

\* func (i *Instance) writeFile(name string, b []byte) error, called by op
writeFile(op, i, name, b) ==
    LET p == NodePath(i, name)
        r == [op EXCEPT !.sys = "WriteFile", !.path = p, !.data = b]
    IN  /\ UNCHANGED <<dirs, insts, fds, calc>>
        /\ IF ~OpenOk(p)
           THEN /\ res' = r
                /\ UNCHANGED files
           ELSE /\ files' = [files EXCEPT ![p] = WriteNode(files[p], b, FALSE)]
                /\ res' = [r EXCEPT !.ok = TRUE, !.wrote = TRUE, !.before = files[p]]

\* func (i *Instance) Enable() error
Enable(i) == writeFile(Called("Enable", i), i, tracingOnPath, <<"1">>)

\* func (i *Instance) Disable() error
Disable(i) == writeFile(Called("Disable", i), i, tracingOnPath, <<"0">>)

\* func (i *Instance) EnableUprobe(e *UprobeEvent) error
EnableUprobe(i, e) ==
    writeFile([Called("EnableUprobe", i) EXCEPT !.ev = e], i,
              UprobeEnablePath(i, e), <<"1">>)

\* func (i *Instance) DisableUprobe(e *UprobeEvent) error
DisableUprobe(i, e) ==
    writeFile([Called("DisableUprobe", i) EXCEPT !.ev = e], i,
              UprobeEnablePath(i, e), <<"0">>)

\* the Tracer that CurrentTracer makes of the content readFile hands it
TracerOf(content) == TrimSpace(content)

\* func (i *Instance) CurrentTracer() (Tracer, error), over readFile
CurrentTracer(i) ==
    LET p == NodePath(i, curTracerPath)
        r == [Called("CurrentTracer", i) EXCEPT !.sys = "ReadFile", !.path = p]
    IN  /\ UNCHANGED <<dirs, files, insts, fds, calc>>
        /\ IF ~OpenOk(p)
           THEN res' = r
           ELSE res' = [r EXCEPT !.ok = TRUE, !.read = TRUE, !.before = files[p],
                                 !.tracer = TracerOf(files[p])]

\* the switch of On over the trimmed content: <<known, value>>
OnSwitch(result) ==
    IF result = <<"0">> THEN <<TRUE, FALSE>>
    ELSE IF result = <<"1">> THEN <<TRUE, TRUE>>
    ELSE <<FALSE, FALSE>>

\* func (i *Instance) On() (bool, error), over readFile
On(i) ==
    LET p == NodePath(i, tracingOnPath)
        r == [Called("On", i) EXCEPT !.sys = "ReadFile", !.path = p]
    IN  /\ UNCHANGED <<dirs, files, insts, fds, calc>>
        /\ IF ~OpenOk(p)
           THEN res' = r
           ELSE LET sw == OnSwitch(TrimSpace(files[p]))
                IN  res' = [r EXCEPT !.ok = sw[1], !.on = sw[2], !.read = TRUE,
                                     !.before = files[p]]

\* the line AddUprobeEvent hands to fmt.Fprintln
EventLine(e) == Rule(e) \o NewLine

\* func (i *Instance) AddUprobeEvent(e *UprobeEvent) error; rejected says
\* whether the kernel refuses the written line
AddUprobeEvent(i, e, rejected) ==
    LET p == Join(<<i.path, uprobeEventsLit>>)
        r == [Called("AddUprobeEvent", i) EXCEPT
                 !.ev = e, !.sys = "OpenFile", !.path = p]
    IN  /\ UNCHANGED <<dirs, insts, fds, calc>>
        /\ OpenOk(p) => NumLines(files[p]) < MaxLines
        /\ IF ~OpenOk(p)
           THEN /\ res' = r
                /\ UNCHANGED files
           ELSE IF rejected
           THEN /\ res' = [r EXCEPT !.data = EventLine(e), !.before = files[p]]
                /\ UNCHANGED files
           ELSE /\ files' = [files EXCEPT
                                ![p] = WriteNode(files[p], EventLine(e), TRUE)]
                /\ res' = [r EXCEPT !.data = EventLine(e), !.before = files[p],
                                    !.ok = TRUE, !.wrote = TRUE]

-----------------------------------------------------------------------------
(* Instances and tracer control, one caller *)

Next ==
    \/ \E i \in insts : ChildInstances(i)
    \/ \E i \in insts, name \in InstanceNames : NewInstance(i, name)
    \/ \E i \in insts : Destroy(i)
    \/ \E i \in insts : On(i)
    \/ \E i \in insts : Enable(i)
    \/ \E i \in insts : Disable(i)

Spec == Init /\ [][Next]_vars

-----------------------------------------------------------------------------
(* Uprobe registration and switching, one caller *)

InitU ==
    /\ Mounted(<<"1">> \o NewLine)
    /\ insts = {DefaultInstance}
    /\ fds = [c \in Callers |-> NoFd]
    /\ res = NoRes
    /\ calc = NoCalc

NextU ==
    \/ \E i \in insts, name \in OneName : NewInstance(i, name)
    \/ \E i \in insts : Destroy(i)
    \/ \E i \in insts, e \in AddEvents, rejected \in BOOLEAN :
          AddUprobeEvent(i, e, rejected)
    \/ \E i \in insts, e \in SwitchEvents : EnableUprobe(i, e)
    \/ \E i \in insts, e \in SwitchEvents : DisableUprobe(i, e)

SpecU == InitU /\ [][NextU]_vars

-----------------------------------------------------------------------------
(* Two callers.  A write is two steps, as ioutil.WriteFile and              *)
(* AddUprobeEvent make it: the open of the node, then the write and close.  *)
(* Opening a control node changes nothing in it.                            *)

\* the instance NewInstance("a") leaves behind
ChildA == NewChild(Join(<<rootPath, instancesLit, <<"a">> >>), <<"a">>)

\* the mount after NewInstance("a"), both instances as the kernel shows them
InitC ==
    /\ dirs = DefaultDirs(rootPath) \cup {Join(<<rootPath, instancesLit>>)}
                \cup DefaultDirs(ChildA.path)
    /\ files = DefaultNodes(rootPath) @@ DefaultNodes(ChildA.path)
    /\ insts = {DefaultInstance, ChildA}
    /\ fds = [c \in Callers |-> NoFd]
    /\ res = NoRes
    /\ calc = NoCalc

RECURSIVE Begun(_)
\* the operations begun so far by the callers of C
Begun(C) ==
    IF C = {} THEN 0
    ELSE LET c == CHOOSE x \in C : TRUE IN fds[c].n + Begun(C \ {c})

\* caller c opens node p of instance i to write data to it
Open(c, op, i, p, data, append) ==
    /\ ~fds[c].open
    /\ Begun(Callers) < MaxOps
    /\ OpenOk(p)
    /\ fds' = [fds EXCEPT ![c] =
                  [open |-> TRUE, op |-> op, inst |-> i, path |-> p, data |-> data,
                   append |-> append, raced |-> FALSE, n |-> fds[c].n + 1]]
    /\ UNCHANGED <<dirs, files, insts, res, calc>>

\* SetTracer, up to the open inside writeFile
BeginSetTracer(c, i, t) ==
    Open(c, "SetTracer", i, NodePath(i, curTracerPath), t, FALSE)

\* Enable, up to the open inside writeFile
BeginEnable(c, i) ==
    Open(c, "Enable", i, NodePath(i, tracingOnPath), <<"1">>, FALSE)

\* Disable, up to the open inside writeFile
BeginDisable(c, i) ==
    Open(c, "Disable", i, NodePath(i, tracingOnPath), <<"0">>, FALSE)

\* AddUprobeEvent, up to os.OpenFile
BeginAddUprobeEvent(c, i, e) ==
    Open(c, "AddUprobeEvent", i, Join(<<i.path, uprobeEventsLit>>),
         EventLine(e), TRUE)

\* the write and the close that end the operation of caller c; it marks the
\* descriptors the other callers hold open on the same node
Finish(c) ==
    /\ fds[c].open
    /\ files' = [files EXCEPT ![fds[c].path] =
                    WriteNode(files[fds[c].path], fds[c].data, fds[c].append)]
    /\ fds' = [d \in Callers |->
                  IF d = c THEN [fds[c] EXCEPT !.open = FALSE]
                  ELSE IF fds[d].open /\ fds[d].path = fds[c].path
                  THEN [fds[d] EXCEPT !.raced = TRUE]
                  ELSE fds[d]]
    /\ UNCHANGED <<dirs, insts, res, calc>>

NextC ==
    \/ \E c \in Callers, i \in insts, t \in Tracers : BeginSetTracer(c, i, t)
    \/ \E c \in Callers, i \in insts : BeginEnable(c, i)
    \/ \E c \in Callers, i \in insts : BeginDisable(c, i)
    \/ \E c \in Callers, i \in insts, e \in AddEvents : BeginAddUprobeEvent(c, i, e)
    \/ \E c \in Callers : Finish(c)
    \/ \E i \in insts : CurrentTracer(i)

SpecC == InitC /\ [][NextC]_vars

-----------------------------------------------------------------------------
(* The pure functions, each evaluated once on an input *)

EvalRule(e) ==
    /\ calc' = [NoCalc EXCEPT !.op = "Rule", !.e = e, !.s = Rule(e)]
    /\ UNCHANGED <<dirs, files, insts, fds, res>>

EvalRulePair(e, e2) ==
    /\ calc' = [NoCalc EXCEPT !.op = "RulePair", !.e = e, !.e2 = e2,
                              !.s = Rule(e), !.s2 = Rule(e2)]
    /\ UNCHANGED <<dirs, files, insts, fds, res>>

EvalUprobeEnablePath(i, e) ==
    /\ calc' = [NoCalc EXCEPT !.op = "UprobeEnablePath", !.inst = i, !.e = e,
                              !.s = UprobeEnablePath(i, e)]
    /\ UNCHANGED <<dirs, files, insts, fds, res>>

\* nothing evaluated yet
Fresh == calc = NoCalc

NextR ==
    \/ Fresh /\ \E e \in AllEvents : EvalRule(e)
    \/ Fresh /\ \E e \in PairEvents, e2 \in PairEvents : EvalRulePair(e, e2)
    \/ Fresh /\ \E i \in insts, e \in AllEvents : EvalUprobeEnablePath(i, e)

SpecR == InitC /\ [][NextR]_vars

-----------------------------------------------------------------------------
(* The rule grammar, read back: what the claims compare the code with *)

RECURSIVE Concat(_)
\* the strings of a sequence, one after the other
Concat(ss) == IF ss = <<>> THEN <<>> ELSE Head(ss) \o Concat(Tail(ss))

HexChars ==
    {"0", "1", "2", "3", "4", "5", "6", "7", "8", "9", "a", "b", "c", "d", "e", "f"}

\* the value of a lowercase hexadecimal digit
HexVal(ch) ==
    CHOOSE v \in 0..15 :
        <<"0", "1", "2", "3", "4", "5", "6", "7",
          "8", "9", "a", "b", "c", "d", "e", "f">>[v + 1] = ch

RECURSIVE HexNumber(_)
\* the number a string of hexadecimal digits denotes
HexNumber(ds) == IF ds = <<>> THEN 0 ELSE HexNumber(Front(ds)) * 16 + HexVal(Last(ds))

\* the naming clause the grammar gives an event, without its colon; <<>> if none
NamingClause(e) ==
    IF e.Event = <<>> THEN <<>>
    ELSE IF e.Group = <<>> THEN e.Event
    ELSE e.Group \o <<"/">> \o e.Event

\* the fields of a rule line, by the grammar
\*   <type> [':' <naming>] ' ' <path> ':0x' <16 digits> [' ' <fetch-arg>]*
ParseRule(line) ==
    LET spaces == {k \in 1..Len(line) : line[k] = " "}
        sp1 == CHOOSE k \in spaces : \A j \in spaces : k <= j
        later == {k \in spaces : k > sp1}
        end == IF later = {} THEN Len(line)
               ELSE (CHOOSE k \in later : \A j \in later : k <= j) - 1
        head == SubSeq(line, 1, sp1 - 1)
        target == SubSeq(line, sp1 + 1, end)
    IN  [type |-> head[1],
         colon |-> Len(head) > 1 /\ head[2] = ":",
         naming |-> SubSeq(head, 3, Len(head)),
         path |-> SubSeq(target, 1, Len(target) - 19),
         mark |-> SubSeq(target, Len(target) - 18, Len(target) - 16),
         hex |-> SubSeq(target, Len(target) - 15, Len(target)),
         args |-> SubSeq(line, end + 1, Len(line))]

-----------------------------------------------------------------------------
(* C1 *)

\* C1: Rule(e) is the grammar line of e: 'r' for a return probe and 'p'
\* otherwise; ':Group/Event' when both are set, ':Event' when only Event is,
\* nothing when Event is empty; ' Path:0x' and Offset as exactly 16 lowercase
\* zero-padded hexadecimal digits (0 -> 0000000000000000, 4096 ->
\* 0000000000001000); then ' ' and the encoding of each fetch argument, in order.
C1_RuleGrammar ==
    calc.op = "Rule" =>
        LET e == calc.e
            typ == IF e.ReturnProbe THEN "r" ELSE "p"
            naming == IF e.Event = <<>> THEN <<>>
                      ELSE IF e.Group = <<>> THEN <<":">> \o e.Event
                      ELSE <<":">> \o e.Group \o <<"/">> \o e.Event
            args == Concat([k \in 1..Len(e.FetchArgs) |->
                               <<" ">> \o e.FetchArgs[k].register])
            n == Len(naming) + Len(e.Path)
            hex == SubSeq(calc.s, n + 6, n + 21)
        IN  /\ Len(calc.s) >= n + 21
            /\ calc.s[1] = typ
            /\ SubSeq(calc.s, 2, Len(naming) + 1) = naming
            /\ SubSeq(calc.s, Len(naming) + 2, n + 5)
                   = <<" ">> \o e.Path \o <<":", "0", "x">>
            /\ Len(hex) = 16
            /\ \A k \in 1..16 : hex[k] \in HexChars
            /\ HexNumber(hex) = e.Offset
            /\ e.Offset = 0 => hex = [k \in 1..16 |-> "0"]
            /\ e.Offset = 4096 => hex = [k \in 1..16 |-> IF k = 13 THEN "1" ELSE "0"]
            /\ SubSeq(calc.s, n + 22, Len(calc.s)) = args
            /\ e.FetchArgs = <<>> => Len(calc.s) = n + 21

\* a group without an event, offset 4096 and two fetch arguments were encoded
C1_Witness ==
    /\ calc.op = "Rule"
    /\ calc.e.Group # <<>> /\ calc.e.Event = <<>>
    /\ calc.e.Offset = 4096
    /\ Len(calc.e.FetchArgs) = 2

-----------------------------------------------------------------------------
(* C2 *)

\* the places where string t occurs in string s
Occurrences(t, s) ==
    {k \in 1..(Len(s) - Len(t) + 1) : SubSeq(s, k, k + Len(t) - 1) = t}

\* C2: UprobeEnablePath(i, e) is <path>/events/<Group>/<Event>/enable when
\* both are set, <path>/events/uprobes/<Event>/enable when only Event is, and
\* <path>/events/uprobes/enable whenever Event is empty, Group set or not;
\* the instance path occurs in it once, as its prefix.
C2_EnablePath ==
    calc.op = "UprobeEnablePath" =>
        LET e == calc.e
            path == calc.inst.path
            tail == IF e.Event = <<>> THEN <<"/", "events", "/", "uprobes", "/", "enable">>
                    ELSE IF e.Group = <<>>
                    THEN <<"/", "events", "/", "uprobes", "/">> \o e.Event
                             \o <<"/", "enable">>
                    ELSE <<"/", "events", "/">> \o e.Group \o <<"/">> \o e.Event
                             \o <<"/", "enable">>
        IN  /\ calc.s = path \o tail
            /\ Occurrences(path, calc.s) = {1}

\* the path of a child instance was derived for a group without an event
C2_Witness ==
    /\ calc.op = "UprobeEnablePath"
    /\ ~calc.inst.isRoot
    /\ calc.e.Group # <<>> /\ calc.e.Event = <<>>

-----------------------------------------------------------------------------
(* C8 *)

\* C8: parsing the line Rule produces by the grammar recovers the type, the
\* naming clause, the path and the 16-digit offset of the event, and two
\* events that differ in one of these never encode to the same line.
C8_RoundTrip ==
    calc.op = "RulePair" =>
        LET e == calc.e
            f == calc.e2
            got == ParseRule(calc.s)
        IN  /\ got.type = (IF e.ReturnProbe THEN "r" ELSE "p")
            /\ got.colon <=> NamingClause(e) # <<>>
            /\ got.naming = NamingClause(e)
            /\ got.path = e.Path
            /\ got.mark = <<":", "0", "x">>
            /\ Len(got.hex) = 16
            /\ HexNumber(got.hex) = e.Offset
            /\ calc.s = calc.s2 =>
                  /\ e.ReturnProbe = f.ReturnProbe
                  /\ NamingClause(e) = NamingClause(f)
                  /\ e.Path = f.Path
                  /\ e.Offset = f.Offset

\* two events that differ only in a group no event goes with were encoded to
\* one line
C8_Witness ==
    /\ calc.op = "RulePair"
    /\ calc.e # calc.e2
    /\ calc.s = calc.s2
    /\ calc.e.Offset = 256

-----------------------------------------------------------------------------
(* C3 *)

\* C3: EnableUprobe(e) and DisableUprobe(e) on instance i write "1" and "0"
\* to the file whose path is UprobeEnablePath(i, e), and to no other file.
C3_WritesDerivedPath ==
    res.op \in {"EnableUprobe", "DisableUprobe"} =>
        /\ res.sys = "WriteFile"
        /\ res.path = UprobeEnablePath(res.inst, res.ev)
        /\ res.data = (IF res.op = "EnableUprobe" THEN <<"1">> ELSE <<"0">>)

-----------------------------------------------------------------------------
(* C4 *)

\* the call r records is one on the wrong kind of instance
Misuse(r) ==
    \/ r.op \in {"ChildInstances", "NewInstance"} /\ ~r.inst.isRoot
    \/ r.op = "Destroy" /\ r.inst.isRoot

\* C4: ChildInstances() and NewInstance(name) on a non-root instance and
\* Destroy() on a root instance return an error, before any filesystem call
\* and with the filesystem unchanged, whatever the filesystem holds.
C4_MisuseRejected ==
    [][Misuse(res') =>
          /\ ~res'.ok
          /\ res'.sys = ""
          /\ res'.out = <<>> /\ res'.child = NoInst
          /\ dirs' = dirs /\ files' = files /\ insts' = insts]_vars

\* ChildInstances was called on a child that NewInstance returned and whose
\* directory exists, next to a sibling
C4_Witness ==
    /\ res.op = "ChildInstances"
    /\ ~res.inst.isRoot
    /\ res.inst.path \in dirs
    /\ Cardinality(Entries(Dir(res.inst.path))) = 2

-----------------------------------------------------------------------------
(* C5 *)

\* the names of the instances in a listing
Listed(out) == {out[k].name : k \in DOMAIN out}

\* the node of instance j called name, spelled out
NodeOf(j, name) == j.path \o <<"/">> \o name

NodeNames == {curTracerPath, tracingOnPath, uprobeEventsLit}

\* instance j, its directory and its nodes, is the same after the step
Untouched(j) ==
    /\ j.path \in dirs <=> j.path \in dirs'
    /\ \A name \in NodeNames :
          /\ NodeOf(j, name) \in DOMAIN files <=> NodeOf(j, name) \in DOMAIN files'
          /\ NodeOf(j, name) \in DOMAIN files =>
                files'[NodeOf(j, name)] = files[NodeOf(j, name)]

\* C5: the ChildInstances() on the root that follows a successful
\* NewInstance(n) lists n, the one that follows a successful Destroy() of the
\* instance named n does not list n, a Destroy leaves every other instance's
\* directory and node contents as they were, and a NewInstance(n) that fails
\* because n exists leaves the set of instances unchanged.
C5_Lifecycle ==
    [][/\ (res.op = "NewInstance" /\ res.ok
             /\ res'.op = "ChildInstances" /\ res'.inst.isRoot)
          => (res'.ok /\ res.name \in Listed(res'.out))
       /\ (res.op = "Destroy" /\ res.ok
             /\ res'.op = "ChildInstances" /\ res'.inst.isRoot)
          => (res'.ok /\ res.inst.name \notin Listed(res'.out))
       /\ (res'.op = "Destroy" /\ res'.ok)
          => /\ res'.inst.path \notin dirs'
             /\ \A j \in insts : j # res'.inst => Untouched(j)
       /\ (res'.op = "NewInstance" /\ ~res'.ok)
          => (dirs' = dirs /\ files' = files)]_vars

\* a child was destroyed while its sibling, switched off, stayed
C5_Witness ==
    /\ res.op = "Destroy" /\ res.ok
    /\ \E j \in insts :
          /\ ~j.isRoot /\ j # res.inst /\ j.path \in dirs
          /\ files[NodeOf(j, tracingOnPath)] = <<"0">>

-----------------------------------------------------------------------------
(* C6 *)

\* C6 as stated: On() returns true for content "1", false for content "0",
\* an error for any other content, and an error when the read fails.
C6_OnByContent ==
    res.op = "On" =>
        IF ~res.read THEN ~res.ok /\ ~res.on
        ELSE IF res.before = <<"1">> THEN res.ok /\ res.on
        ELSE IF res.before = <<"0">> THEN res.ok /\ ~res.on
        ELSE ~res.ok /\ ~res.on

\* s is the symbol ch with nothing but white space around it
Padded(s, ch) ==
    \E k \in 1..Len(s) :
        /\ s[k] = ch
        /\ \A j \in 1..Len(s) : j # k => s[j] \in {" ", "\n", "\t"}

\* C6, amended: On() returns true when the content of tracing_on is "1" with
\* nothing but white space around it, false when it is "0" with nothing but
\* white space around it, an error for any other content, and an error, never
\* a boolean result, when the read fails.
C6_OnByTrimmedContent ==
    res.op = "On" =>
        IF ~res.read THEN ~res.ok /\ ~res.on
        ELSE IF Padded(res.before, "1") THEN res.ok /\ res.on
        ELSE IF Padded(res.before, "0") THEN res.ok /\ ~res.on
        ELSE ~res.ok /\ ~res.on

\* On() answered true on the content the kernel shows, "1" and a newline
C6_Witness ==
    /\ res.op = "On" /\ res.read
    /\ res.before = <<"1", "\n">>
    /\ res.ok /\ res.on

-----------------------------------------------------------------------------
(* C7 *)

\* C7: a successful AddUprobeEvent(e) on i leaves in i's uprobe_events the
\* previous content followed by Rule(e) and a newline, a failed one leaves it
\* as it was, and no other node or directory changes either way.
C7_AppendOnly ==
    [][res'.op = "AddUprobeEvent" =>
          LET p == NodeOf(res'.inst, uprobeEventsLit)
          IN  /\ res'.path = p
              /\ res'.ok =>
                    /\ p \in DOMAIN files
                    /\ files'[p] = files[p] \o Rule(res'.ev) \o <<"\n">>
              /\ ~res'.ok => files' = files
              /\ p \notin DOMAIN files => ~res'.ok
              /\ DOMAIN files' = DOMAIN files
              /\ \A q \in DOMAIN files : q # p => files'[q] = files[q]
              /\ dirs' = dirs]_vars

\* a second line was appended to the table of the child while the table of
\* the root held a line of its own
C7_Witness ==
    /\ res.op = "AddUprobeEvent" /\ res.ok
    /\ ~res.inst.isRoot
    /\ NumLines(res.before) = 1
    /\ NumLines(files[res.path]) = 2
    /\ NumLines(files[NodeOf(DefaultInstance, uprobeEventsLit)]) = 1

-----------------------------------------------------------------------------
(* C9 *)

\* caller c ends its operation in this step
Ends(c) == fds[c].open /\ ~fds'[c].open

\* C9: under any interleaving, the write that ends SetTracer, Enable, Disable
\* or AddUprobeEvent on one instance changes no node of another instance and
\* the opens change no node at all; and the write that ends a SetTracer(t)
\* leaves t whole in current_tracer, whatever the other caller holds open on
\* that node, so that CurrentTracer() then returns t; CurrentTracer() never
\* returns a mix of written tracers.
C9_Isolation ==
    [][/\ \A c \in Callers :
             Ends(c) =>
                /\ \A j \in insts : j # fds[c].inst => Untouched(j)
                /\ fds[c].op = "SetTracer" =>
                      /\ files'[NodeOf(fds[c].inst, curTracerPath)] = fds[c].data
                      /\ TracerOf(files'[NodeOf(fds[c].inst, curTracerPath)]) = fds[c].data
       /\ (\A c \in Callers : ~Ends(c)) => files' = files
       /\ (res'.op = "CurrentTracer" /\ res'.ok) =>
             /\ res'.tracer \in Tracers
             /\ res'.before \in Tracers \cup {NopTracer \o <<"\n">>}]_vars

\* two callers had SetTracer open on one instance with different tracers, both
\* have written, and CurrentTracer() returned the tracer written last
C9_Witness ==
    \E c, d \in Callers :
        /\ c # d
        /\ fds[c].op = "SetTracer" /\ fds[d].op = "SetTracer"
        /\ ~fds[c].open /\ ~fds[d].open
        /\ fds[c].path = fds[d].path /\ fds[c].data # fds[d].data
        /\ fds[c].raced /\ ~fds[d].raced
        /\ Len(fds[c].data) < Len(fds[d].data)
        /\ res.op = "CurrentTracer" /\ res.ok /\ res.inst = fds[c].inst
        /\ res.tracer = fds[c].data

-----------------------------------------------------------------------------
(* C10 *)

\* C10: the callers hold exactly one root instance, the one of the mount
\* point, and every other instance they hold, returned by NewInstance or by
\* ChildInstances, has isRoot false, the name of its directory entry and
\* the path <root path>/instances/<name>.
C10_InstanceShape ==
    /\ {i \in insts : i.isRoot} = {RootInstance(rootPath)}
    /\ \A i \in insts :
          ~i.isRoot =>
              /\ i.path = rootPath \o <<"/", "instances", "/">> \o i.name
              /\ i.name # <<>> /\ \A k \in 1..Len(i.name) : i.name[k] # "/"
    /\ (res.op = "NewInstance" /\ res.ok) =>
          /\ res.child \in insts /\ ~res.child.isRoot
          /\ res.child.name = res.name
          /\ res.child.path \in dirs
    /\ (res.op = "ChildInstances" /\ res.ok) =>
          /\ \A k \in DOMAIN res.out :
                /\ res.out[k] \in insts /\ ~res.out[k].isRoot
                /\ res.out[k].path \in dirs
          /\ Cardinality(Listed(res.out)) = Len(res.out)

\* a listing of two children was returned
C10_Witness ==
    /\ res.op = "ChildInstances" /\ res.ok
    /\ Len(res.out) = 2
    /\ Cardinality(insts) = 3

====
